---------------------------- MODULE Spec2Model ----------------------------
(***************************************************************************)
(* Model of the data-encoding core of fast_qr:                             *)
(*   src/src/encode.rs        mode classifier, mode encoders, finalizer    *)
(*   src/src/hardcode/mod.rs  structural tables                            *)
(*   src/src/module.rs        packed Module cell                           *)
(*                                                                         *)
(* Conventions.  A Version Vnn is the integer nn (1..40); `version as      *)
(* usize` is nn - 1 and indexes a 0-based Rust array, so it indexes the    *)
(* 1-based sequences below at nn.  An ECL is one of "L", "M", "Q", "H".    *)
(* A Mode is one of "Numeric", "Alphanumeric", "Byte".  A byte is an       *)
(* integer 0..255, a bit is a BOOLEAN, a BitString is a sequence of bits.  *)
(* Loop indices i are the 0-based indices of the Rust code; input[i] of    *)
(* the code is input[i + 1] here.                                          *)
(***************************************************************************)
EXTENDS Integers, Sequences, FiniteSets, TLC

VARIABLES
  \* encode / best_encoding (src/src/encode.rs)
  input,      \* the input bytes
  ecl,        \* the error-correction level passed to encode
  mode,       \* the mode passed to encode ("-" before the call)
  best,       \* result of best_encoding(input) ("-" before the call)
  version,    \* Version::get's result; 0 stands for None
  bs,         \* the BitString being built
  i,          \* the loop variable of the function being executed
  byte,       \* fill's `byte` flag
  encLen,     \* bs.len() when the mode encoder returned
  fillLen,    \* bs.len() when fill was entered
  pc,         \* position inside best_encoding / encode
  \* Module (src/src/module.rs)
  cell,       \* the packed u8, Module.0
  ctor,       \* which constructor built the cell
  mrole,      \* the role the cell was constructed with
  mcolor,     \* the color the calls made so far should have left
  mcalls,     \* the set / toggle calls made so far, in order
  \* structural table lookups (src/src/hardcode/mod.rs)
  tpc,        \* "idle", "looked_up" or "budget"
  tversion,   \* the version looked up
  tecl,       \* the level looked up
  tgroups,    \* ecc_to_groups(tecl, tversion)
  tcodewords, \* data_codewords(tversion, tecl)
  tpoly,      \* get_polynomial(tversion, tecl)
  tmode,      \* the mode whose length-field width is looked up
  tcci,       \* cci_bits(tversion, tmode)
  tbits       \* data_bits(tversion, tecl)

encodeVars == <<input, ecl, mode, best, version, bs, i, byte, encLen, fillLen, pc>>
moduleVars == <<cell, ctor, mrole, mcolor, mcalls>>
tableVars  == <<tpc, tversion, tecl, tgroups, tcodewords, tpoly, tmode, tcci, tbits>>
vars == <<encodeVars, moduleVars, tableVars>>

-----------------------------------------------------------------------------
(* Machine integers.                                                       *)

RECURSIVE Pow2(_)
Pow2(n) ==
  IF n = 0 THEN 1 ELSE 2 * Pow2(n - 1)

\* x << n on the unsigned integers used here (no bit is shifted out).
Shl(x, n) ==
  x * Pow2(n)

\* x >> n
Shr(x, n) ==
  x \div Pow2(n)

RECURSIVE BitOr(_, _)
BitOr(x, y) ==
  IF x = 0 THEN y
  ELSE IF y = 0 THEN x
  ELSE 2 * BitOr(x \div 2, y \div 2) + (IF x % 2 = 1 \/ y % 2 = 1 THEN 1 ELSE 0)

RECURSIVE BitAnd(_, _)
BitAnd(x, y) ==
  IF x = 0 \/ y = 0 THEN 0
  ELSE 2 * BitAnd(x \div 2, y \div 2) + (IF x % 2 = 1 /\ y % 2 = 1 THEN 1 ELSE 0)

RECURSIVE BitXor(_, _)
BitXor(x, y) ==
  IF x = 0 THEN y
  ELSE IF y = 0 THEN x
  ELSE 2 * BitXor(x \div 2, y \div 2) + (IF x % 2 # y % 2 THEN 1 ELSE 0)

\* !x on a u8
BitNot8(x) ==
  255 - x

Min(a, b) ==
  IF a < b THEN a ELSE b

-----------------------------------------------------------------------------
(* Structural tables, src/src/hardcode/mod.rs.                             *)

ECLs == {"L", "M", "Q", "H"}

Modes == {"Numeric", "Alphanumeric", "Byte"}

\* Number of versions: the length of every per-level table.
NumVersions == 40

Versions == 1..NumVersions

\* One packed table entry: (c1 << 24) | (s1 << 16) | (c2 << 8) | s2
Pack(c1, s1, c2, s2) ==
  BitOr(BitOr(BitOr(Shl(c1, 24), Shl(s1, 16)), Shl(c2, 8)), s2)

groups_L ==
  <<
    Pack(1, 19, 0, 0),
    Pack(1, 34, 0, 0),
    Pack(1, 55, 0, 0),
    Pack(1, 80, 0, 0),
    Pack(1, 108, 0, 0),
    Pack(2, 68, 0, 0),
    Pack(2, 78, 0, 0),
    Pack(2, 97, 0, 0),
    Pack(2, 116, 0, 0),
    Pack(2, 68, 2, 69),
    Pack(4, 81, 0, 0),
    Pack(2, 92, 2, 93),
    Pack(4, 107, 0, 0),
    Pack(3, 115, 1, 116),
    Pack(5, 87, 1, 88),
    Pack(5, 98, 1, 99),
    Pack(1, 107, 5, 108),
    Pack(5, 120, 1, 121),
    Pack(3, 113, 4, 114),
    Pack(3, 107, 5, 108),
    Pack(4, 116, 4, 117),
    Pack(2, 111, 7, 112),
    Pack(4, 121, 5, 122),
    Pack(6, 117, 4, 118),
    Pack(8, 106, 4, 107),
    Pack(10, 114, 2, 115),
    Pack(8, 122, 4, 123),
    Pack(3, 117, 10, 118),
    Pack(7, 116, 7, 117),
    Pack(5, 115, 10, 116),
    Pack(13, 115, 3, 116),
    Pack(17, 115, 0, 0),
    Pack(17, 115, 1, 116),
    Pack(13, 115, 6, 116),
    Pack(12, 121, 7, 122),
    Pack(6, 121, 14, 122),
    Pack(17, 122, 4, 123),
    Pack(4, 122, 18, 123),
    Pack(20, 117, 4, 118),
    Pack(19, 118, 6, 119)
  >>

groups_M ==
  <<
    Pack(1, 16, 0, 0),
    Pack(1, 28, 0, 0),
    Pack(1, 44, 0, 0),
    Pack(2, 32, 0, 0),
    Pack(2, 43, 0, 0),
    Pack(4, 27, 0, 0),
    Pack(4, 31, 0, 0),
    Pack(2, 38, 2, 39),
    Pack(3, 36, 2, 37),
    Pack(4, 43, 1, 44),
    Pack(1, 50, 4, 51),
    Pack(6, 36, 2, 37),
    Pack(8, 37, 1, 38),
    Pack(4, 40, 5, 41),
    Pack(5, 41, 5, 42),
    Pack(7, 45, 3, 46),
    Pack(10, 46, 1, 47),
    Pack(9, 43, 4, 44),
    Pack(3, 44, 11, 45),
    Pack(3, 41, 13, 42),
    Pack(17, 42, 0, 0),
    Pack(17, 46, 0, 0),
    Pack(4, 47, 14, 48),
    Pack(6, 45, 14, 46),
    Pack(8, 47, 13, 48),
    Pack(19, 46, 4, 47),
    Pack(22, 45, 3, 46),
    Pack(3, 45, 23, 46),
    Pack(21, 45, 7, 46),
    Pack(19, 47, 10, 48),
    Pack(2, 46, 29, 47),
    Pack(10, 46, 23, 47),
    Pack(14, 46, 21, 47),
    Pack(14, 46, 23, 47),
    Pack(12, 47, 26, 48),
    Pack(6, 47, 34, 48),
    Pack(29, 46, 14, 47),
    Pack(13, 46, 32, 47),
    Pack(40, 47, 7, 48),
    Pack(18, 47, 31, 48)
  >>

groups_Q ==
  <<
    Pack(1, 13, 0, 0),
    Pack(1, 22, 0, 0),
    Pack(2, 17, 0, 0),
    Pack(2, 24, 0, 0),
    Pack(2, 15, 2, 16),
    Pack(4, 19, 0, 0),
    Pack(2, 14, 4, 15),
    Pack(4, 18, 2, 19),
    Pack(4, 16, 4, 17),
    Pack(6, 19, 2, 20),
    Pack(4, 22, 4, 23),
    Pack(4, 20, 6, 21),
    Pack(8, 20, 4, 21),
    Pack(11, 16, 5, 17),
    Pack(5, 24, 7, 25),
    Pack(15, 19, 2, 20),
    Pack(1, 22, 15, 23),
    Pack(17, 22, 1, 23),
    Pack(17, 21, 4, 22),
    Pack(15, 24, 5, 25),
    Pack(17, 22, 6, 23),
    Pack(7, 24, 16, 25),
    Pack(11, 24, 14, 25),
    Pack(11, 24, 16, 25),
    Pack(7, 24, 22, 25),
    Pack(28, 22, 6, 23),
    Pack(8, 23, 26, 24),
    Pack(4, 24, 31, 25),
    Pack(1, 23, 37, 24),
    Pack(15, 24, 25, 25),
    Pack(42, 24, 1, 25),
    Pack(10, 24, 35, 25),
    Pack(29, 24, 19, 25),
    Pack(44, 24, 7, 25),
    Pack(39, 24, 14, 25),
    Pack(46, 24, 10, 25),
    Pack(49, 24, 10, 25),
    Pack(48, 24, 14, 25),
    Pack(43, 24, 22, 25),
    Pack(34, 24, 34, 25)
  >>

groups_H ==
  <<
    Pack(1, 9, 0, 0),
    Pack(1, 16, 0, 0),
    Pack(2, 13, 0, 0),
    Pack(4, 9, 0, 0),
    Pack(2, 11, 2, 12),
    Pack(4, 15, 0, 0),
    Pack(4, 13, 1, 14),
    Pack(4, 14, 2, 15),
    Pack(4, 12, 4, 13),
    Pack(6, 15, 2, 16),
    Pack(3, 12, 8, 13),
    Pack(7, 14, 4, 15),
    Pack(12, 11, 4, 12),
    Pack(11, 12, 5, 13),
    Pack(11, 12, 7, 13),
    Pack(3, 15, 13, 16),
    Pack(2, 14, 17, 15),
    Pack(2, 14, 19, 15),
    Pack(9, 13, 16, 14),
    Pack(15, 15, 10, 16),
    Pack(19, 16, 6, 17),
    Pack(34, 13, 0, 0),
    Pack(16, 15, 14, 16),
    Pack(30, 16, 2, 17),
    Pack(22, 15, 13, 16),
    Pack(33, 16, 4, 17),
    Pack(12, 15, 28, 16),
    Pack(11, 15, 31, 16),
    Pack(19, 15, 26, 16),
    Pack(23, 15, 25, 16),
    Pack(23, 15, 28, 16),
    Pack(19, 15, 35, 16),
    Pack(11, 15, 46, 16),
    Pack(59, 16, 1, 17),
    Pack(22, 15, 41, 16),
    Pack(2, 15, 64, 16),
    Pack(24, 15, 46, 16),
    Pack(42, 15, 32, 16),
    Pack(10, 15, 67, 16),
    Pack(20, 15, 61, 16)
  >>

codewords_L ==
  <<
    19, 34, 55, 80, 108, 136, 156, 194, 232, 274, 324, 370, 428, 461, 523, 589, 647, 721,
    795, 861, 932, 1006, 1094, 1174, 1276, 1370, 1468, 1531, 1631, 1735, 1843, 1955, 2071,
    2191, 2306, 2434, 2566, 2702, 2812, 2956
  >>

codewords_M ==
  <<
    16, 28, 44, 64, 86, 108, 124, 154, 182, 216, 254, 290, 334, 365, 415, 453, 507, 563,
    627, 669, 714, 782, 860, 914, 1000, 1062, 1128, 1193, 1267, 1373, 1455, 1541, 1631,
    1725, 1812, 1914, 1992, 2102, 2216, 2334
  >>

codewords_Q ==
  <<
    13, 22, 34, 48, 62, 76, 88, 110, 132, 154, 180, 206, 244, 261, 295, 325, 367, 397, 445,
    485, 512, 568, 614, 664, 718, 754, 808, 871, 911, 985, 1033, 1115, 1171, 1231, 1286,
    1354, 1426, 1502, 1582, 1666
  >>

codewords_H ==
  <<
    9, 16, 26, 36, 46, 60, 66, 86, 100, 122, 140, 158, 180, 197, 223, 253, 283, 313, 341,
    385, 406, 442, 464, 514, 538, 596, 628, 661, 701, 745, 793, 845, 901, 961, 986, 1054,
    1096, 1142, 1222, 1276
  >>

get_polynomial(ver, lvl) ==
  CASE <<ver, lvl>> \in {
         <<1, "L">> } ->
      <<
         0, 87, 229, 146, 149, 238, 102, 21
      >>
    [] <<ver, lvl>> \in {
         <<1, "M">>, <<2, "L">> } ->
      <<
         0, 251, 67, 46, 61, 118, 70, 64, 94, 32, 45
      >>
    [] <<ver, lvl>> \in {
         <<1, "Q">> } ->
      <<
         0, 74, 152, 176, 100, 86, 100, 106, 104, 130, 218, 206, 140, 78
      >>
    [] <<ver, lvl>> \in {
         <<3, "L">> } ->
      <<
         0, 8, 183, 61, 91, 202, 37, 51, 58, 58, 237, 140, 124, 5, 99, 105
      >>
    [] <<ver, lvl>> \in {
         <<2, "M">>, <<4, "H">>, <<6, "M">> } ->
      <<
         0, 120, 104, 107, 109, 102, 161, 76, 3, 91, 191, 147, 169, 182, 194, 225, 120
      >>
    [] <<ver, lvl>> \in {
         <<1, "H">> } ->
      <<
         0, 43, 139, 206, 78, 43, 239, 123, 206, 214, 147, 24, 99, 150, 39, 243, 163, 136
      >>
    [] <<ver, lvl>> \in {
         <<3, "Q">>, <<4, "M">>, <<5, "Q">>, <<6, "L">>, <<7, "M">>, <<7, "Q">>, <<10, "L">> } ->
      <<
         0, 215, 234, 158, 94, 184, 97, 118, 170, 79, 187, 152, 148, 252, 179, 5, 98, 96,
         153
      >>
    [] <<ver, lvl>> \in {
         <<4, "L">>, <<7, "L">>, <<9, "Q">>, <<11, "L">>, <<14, "Q">> } ->
      <<
         0, 17, 60, 79, 50, 61, 163, 26, 187, 202, 180, 221, 225, 83, 239, 156, 164, 212,
         212, 188, 190
      >>
    [] <<ver, lvl>> \in {
         <<2, "Q">>, <<3, "H">>, <<5, "H">>, <<8, "M">>, <<8, "Q">>, <<9, "M">>,
         <<12, "M">>, <<13, "M">>, <<13, "H">>, <<15, "L">> } ->
      <<
         0, 210, 171, 247, 242, 93, 230, 14, 109, 221, 53, 200, 74, 8, 172, 98, 80, 219,
         134, 160, 105, 165, 231
      >>
    [] <<ver, lvl>> \in {
         <<5, "M">>, <<6, "Q">>, <<8, "L">>, <<9, "H">>, <<10, "Q">>, <<11, "H">>,
         <<12, "L">>, <<13, "Q">>, <<14, "M">>, <<14, "H">>, <<15, "M">>, <<15, "H">>,
         <<16, "L">>, <<16, "Q">>, <<22, "H">> } ->
      <<
         0, 229, 121, 135, 48, 211, 117, 251, 126, 159, 180, 169, 152, 192, 226, 228, 218,
         111, 0, 117, 232, 87, 96, 227, 21
      >>
    [] <<ver, lvl>> \in {
         <<3, "M">>, <<4, "Q">>, <<5, "L">>, <<7, "H">>, <<8, "H">>, <<10, "M">>,
         <<12, "Q">>, <<13, "L">>, <<18, "M">>, <<19, "M">>, <<19, "Q">>, <<19, "H">>,
         <<20, "M">>, <<21, "M">>, <<25, "L">> } ->
      <<
         0, 173, 125, 158, 2, 103, 182, 118, 17, 145, 201, 111, 28, 165, 53, 161, 21, 245,
         142, 13, 102, 48, 227, 153, 145, 218, 70
      >>
    [] <<ver, lvl>> \in {
         <<2, "H">>, <<6, "H">>, <<10, "H">>, <<11, "Q">>, <<12, "H">>, <<16, "M">>,
         <<17, "L">>, <<17, "M">>, <<17, "Q">>, <<17, "H">>, <<18, "Q">>, <<18, "H">>,
         <<19, "L">>, <<20, "L">>, <<20, "H">>, <<21, "L">>, <<21, "Q">>, <<22, "L">>,
         <<22, "M">>, <<23, "M">>, <<24, "M">>, <<25, "M">>, <<26, "L">>, <<26, "M">>,
         <<26, "Q">>, <<27, "M">>, <<28, "M">>, <<29, "M">>, <<30, "M">>, <<31, "M">>,
         <<32, "M">>, <<33, "M">>, <<34, "M">>, <<35, "M">>, <<36, "M">>, <<37, "M">>,
         <<38, "M">>, <<39, "M">>, <<40, "M">> } ->
      <<
         0, 168, 223, 200, 104, 224, 234, 108, 180, 110, 190, 195, 147, 205, 27, 232, 201,
         21, 43, 245, 87, 42, 195, 212, 119, 242, 37, 9, 123
      >>
    [] <<ver, lvl>> \in {
         <<9, "L">>, <<11, "M">>, <<14, "L">>, <<15, "Q">>, <<16, "H">>, <<18, "L">>,
         <<20, "Q">>, <<21, "H">>, <<22, "Q">>, <<23, "L">>, <<23, "Q">>, <<23, "H">>,
         <<24, "L">>, <<24, "Q">>, <<24, "H">>, <<25, "Q">>, <<25, "H">>, <<26, "H">>,
         <<27, "L">>, <<27, "Q">>, <<27, "H">>, <<28, "L">>, <<28, "Q">>, <<28, "H">>,
         <<29, "L">>, <<29, "Q">>, <<29, "H">>, <<30, "L">>, <<30, "Q">>, <<30, "H">>,
         <<31, "L">>, <<31, "Q">>, <<31, "H">>, <<32, "L">>, <<32, "Q">>, <<32, "H">>,
         <<33, "L">>, <<33, "Q">>, <<33, "H">>, <<34, "L">>, <<34, "Q">>, <<34, "H">>,
         <<35, "L">>, <<35, "Q">>, <<35, "H">>, <<36, "L">>, <<36, "Q">>, <<36, "H">>,
         <<37, "L">>, <<37, "Q">>, <<37, "H">>, <<38, "L">>, <<38, "Q">>, <<38, "H">>,
         <<39, "L">>, <<39, "Q">>, <<39, "H">>, <<40, "L">>, <<40, "Q">>, <<40, "H">> } ->
      <<
         0, 41, 173, 145, 152, 216, 31, 179, 182, 50, 48, 110, 86, 239, 96, 222, 125, 42,
         173, 226, 193, 224, 130, 156, 37, 251, 216, 238, 40, 192, 180
      >>

\* ecc_to_groups with each group's count and size read from the other's
\* byte.
ecc_to_groups_transposed(quality, ver) ==
  LET ecgroups == CASE quality = "L" -> groups_L[ver]
                    [] quality = "M" -> groups_M[ver]
                    [] quality = "Q" -> groups_Q[ver]
                    [] quality = "H" -> groups_H[ver]
      g1_count == BitAnd(Shr(ecgroups, 16), 255)
      g1_size  == BitAnd(Shr(ecgroups, 24), 255)
      g2_count == BitAnd(ecgroups, 255)
      g2_size  == BitAnd(Shr(ecgroups, 8), 255)
  IN  << <<g1_count, g1_size>>, <<g2_count, g2_size>> >>

\* ecc_to_groups without the `& 0xFF` on g2_count.
ecc_to_groups_unmasked(quality, ver) ==
  LET ecgroups == CASE quality = "L" -> groups_L[ver]
                    [] quality = "M" -> groups_M[ver]
                    [] quality = "Q" -> groups_Q[ver]
                    [] quality = "H" -> groups_H[ver]
      g1_count == BitAnd(Shr(ecgroups, 24), 255)
      g1_size  == BitAnd(Shr(ecgroups, 16), 255)
      g2_count == Shr(ecgroups, 8)
      g2_size  == BitAnd(ecgroups, 255)
  IN  << <<g1_count, g1_size>>, <<g2_count, g2_size>> >>

\* Fetches the packed entry and unpacks the two (count, size) groups.
ecc_to_groups(quality, ver) ==
  LET ecgroups == CASE quality = "L" -> groups_L[ver]
                    [] quality = "M" -> groups_M[ver]
                    [] quality = "Q" -> groups_Q[ver]
                    [] quality = "H" -> groups_H[ver]
      g1_count == BitAnd(Shr(ecgroups, 24), 255)
      g1_size  == BitAnd(Shr(ecgroups, 16), 255)
      g2_count == BitAnd(Shr(ecgroups, 8), 255)
      g2_size  == BitAnd(ecgroups, 255)
  IN  << <<g1_count, g1_size>>, <<g2_count, g2_size>> >>

\* data_codewords with the Q and H arms exchanged.
data_codewords_swapped(ver, lvl) ==
  CASE lvl = "L" -> codewords_L[ver]
    [] lvl = "M" -> codewords_M[ver]
    [] lvl = "Q" -> codewords_H[ver]
    [] lvl = "H" -> codewords_Q[ver]

data_codewords(ver, lvl) ==
  CASE lvl = "L" -> codewords_L[ver]
    [] lvl = "M" -> codewords_M[ver]
    [] lvl = "Q" -> codewords_Q[ver]
    [] lvl = "H" -> codewords_H[ver]

data_bits(ver, lvl) ==
  data_codewords(ver, lvl) * 8

\* cci_bits with the Byte arm stuck at its first width.
cci_bits_byte_narrow(ver, m) ==
  CASE m = "Numeric" ->
         IF ver >= 27 THEN 14 ELSE IF ver >= 10 THEN 12 ELSE 10
    [] m = "Alphanumeric" ->
         IF ver >= 27 THEN 13 ELSE IF ver >= 10 THEN 11 ELSE 9
    [] m = "Byte" ->
         8

\* cci_bits with `>` where the code has `>=`.
cci_bits_exclusive(ver, m) ==
  CASE m = "Numeric" ->
         IF ver > 27 THEN 14 ELSE IF ver > 10 THEN 12 ELSE 10
    [] m = "Alphanumeric" ->
         IF ver > 27 THEN 13 ELSE IF ver > 10 THEN 11 ELSE 9
    [] m = "Byte" ->
         IF ver > 10 THEN 16 ELSE 8

cci_bits(ver, m) ==
  CASE m = "Numeric" ->
         IF ver >= 27 THEN 14 ELSE IF ver >= 10 THEN 12 ELSE 10
    [] m = "Alphanumeric" ->
         IF ver >= 27 THEN 13 ELSE IF ver >= 10 THEN 11 ELSE 9
    [] m = "Byte" ->
         IF ver >= 10 THEN 16 ELSE 8

-----------------------------------------------------------------------------
(* Module, src/src/module.rs.                                              *)

\* The ModuleType variants in declaration order; variant k (0-based) has
\* the discriminant k << 1.
ModuleTypes ==
  <<"Data", "FinderPattern", "Alignment", "Timing", "Format", "Version",
    "DarkModule", "Empty">>

\* `module_type as u8`
ModuleType_as_u8(module_type) ==
  Shl((CHOOSE k \in 1..Len(ModuleTypes) : ModuleTypes[k] = module_type) - 1, 1)

\* impl From<u8> for ModuleType
ModuleType_from(value) ==
  CASE value = 0 -> "Data"
    [] value = 1 -> "FinderPattern"
    [] value = 2 -> "Alignment"
    [] value = 3 -> "Timing"
    [] value = 4 -> "Format"
    [] value = 5 -> "Version"
    [] value = 6 -> "DarkModule"
    [] value = 7 -> "Empty"
    [] OTHER -> "unreachable"

Module_new(value, module_type) ==
  BitOr(IF value THEN 1 ELSE 0, ModuleType_as_u8(module_type))

Module_data(value) ==
  Module_new(value, "Data")

Module_finder_pattern(value) ==
  Module_new(value, "FinderPattern")

Module_alignment(value) ==
  Module_new(value, "Alignment")

Module_timing(value) ==
  Module_new(value, "Timing")

Module_format(value) ==
  Module_new(value, "Format")

Module_version(value) ==
  Module_new(value, "Version")

Module_dark(value) ==
  Module_new(value, "DarkModule")

Module_empty(value) ==
  Module_new(value, "Empty")

\* The named constructor of a role.
Module_named(value, module_type) ==
  CASE module_type = "Data"          -> Module_data(value)
    [] module_type = "FinderPattern" -> Module_finder_pattern(value)
    [] module_type = "Alignment"     -> Module_alignment(value)
    [] module_type = "Timing"        -> Module_timing(value)
    [] module_type = "Format"        -> Module_format(value)
    [] module_type = "Version"       -> Module_version(value)
    [] module_type = "DarkModule"    -> Module_dark(value)
    [] module_type = "Empty"         -> Module_empty(value)

Module_value(self) ==
  BitAnd(self, 1) = 1

Module_module_type(self) ==
  ModuleType_from(Shr(self, 1))

\* Module_set clearing with `& 1` instead of `& !1`.
Module_set_unnegated(self, value) ==
  IF value THEN BitOr(self, 1) ELSE BitAnd(self, 1)

Module_set(self, value) ==
  IF value THEN BitOr(self, 1) ELSE BitAnd(self, BitNot8(1))

Module_toggle(self) ==
  BitXor(self, 1)

-----------------------------------------------------------------------------
(* The bit buffer, crate::bitstring.  Its source is not part of src/; the  *)
(* operations are modelled from their interface: append one bit, append    *)
(* the low n bits of an unsigned integer most-significant-bit first,       *)
(* append a byte most-significant-bit first, append a slice of bits.       *)

\* BitString<23648>
CAPACITY == 23648

BitString_new ==
  << >>

push(b, bit) ==
  Append(b, bit)

push_bits(b, number, n) ==
  b \o [j \in 1..n |-> (number \div Pow2(n - j)) % 2 = 1]

push_u8(b, x) ==
  push_bits(b, x, 8)

push_slice(b, slice) ==
  b \o slice

-----------------------------------------------------------------------------
(* Version::get, crate::version.  Its source is not part of src/; it is    *)
(* modelled from its interface: the smallest version whose data-bit budget *)
(* for the level accommodates the mode-encoded stream (mode indicator,     *)
(* character-count indicator and packed payload; the terminator is cut to  *)
(* the bits that remain), None (0 here) when not even version 40 does.     *)

\* Bits of the packed payload of len characters.
PayloadBits(m, len) ==
  CASE m = "Numeric" ->
         10 * (len \div 3) + (IF len % 3 = 2 THEN 7 ELSE IF len % 3 = 1 THEN 4 ELSE 0)
    [] m = "Alphanumeric" ->
         11 * (len \div 2) + 6 * (len % 2)
    [] m = "Byte" ->
         8 * len

EncodedBits(m, len, ver) ==
  4 + cci_bits(ver, m) + PayloadBits(m, len)

Version_get(m, lvl, len) ==
  LET fits == {ver \in Versions : EncodedBits(m, len, ver) <= data_bits(ver, lvl)}
  IN  IF fits = {} THEN 0 ELSE CHOOSE ver \in fits : \A w \in fits : ver <= w

-----------------------------------------------------------------------------
(* Classifier and character tables, src/src/encode.rs.                     *)

\* u8::is_ascii_digit
is_ascii_digit(c) ==
  c \in 48..57

\* (c - b'0') as usize, on a digit
ascii_to_digit(c) ==
  c - 48

\* usize::MAX, the value of the `_` arm of ascii_to_alphanumeric.  It only
\* marks "not in the table" here and never enters arithmetic.
usize_MAX == -1

ascii_to_alphanumeric(c) ==
  CASE c = 48 -> 0                 \* b'0'
    [] c = 49 -> 1                 \* b'1'
    [] c = 50 -> 2                 \* b'2'
    [] c = 51 -> 3                 \* b'3'
    [] c = 52 -> 4                 \* b'4'
    [] c = 53 -> 5                 \* b'5'
    [] c = 54 -> 6                 \* b'6'
    [] c = 55 -> 7                 \* b'7'
    [] c = 56 -> 8                 \* b'8'
    [] c = 57 -> 9                 \* b'9'
    [] c \in {65, 97} -> 10        \* b'A' | b'a'
    [] c \in {66, 98} -> 11        \* b'B' | b'b'
    [] c \in {67, 99} -> 12        \* b'C' | b'c'
    [] c \in {68, 100} -> 13       \* b'D' | b'd'
    [] c \in {69, 101} -> 14       \* b'E' | b'e'
    [] c \in {70, 102} -> 15       \* b'F' | b'f'
    [] c \in {71, 103} -> 16       \* b'G' | b'g'
    [] c \in {72, 104} -> 17       \* b'H' | b'h'
    [] c \in {73, 105} -> 18       \* b'I' | b'i'
    [] c \in {74, 106} -> 19       \* b'J' | b'j'
    [] c \in {75, 107} -> 20       \* b'K' | b'k'
    [] c \in {76, 108} -> 21       \* b'L' | b'l'
    [] c \in {77, 109} -> 22       \* b'M' | b'm'
    [] c \in {78, 110} -> 23       \* b'N' | b'n'
    [] c \in {79, 111} -> 24       \* b'O' | b'o'
    [] c \in {80, 112} -> 25       \* b'P' | b'p'
    [] c \in {81, 113} -> 26       \* b'Q' | b'q'
    [] c \in {82, 114} -> 27       \* b'R' | b'r'
    [] c \in {83, 115} -> 28       \* b'S' | b's'
    [] c \in {84, 116} -> 29       \* b'T' | b't'
    [] c \in {85, 117} -> 30       \* b'U' | b'u'
    [] c \in {86, 118} -> 31       \* b'V' | b'v'
    [] c \in {87, 119} -> 32       \* b'W' | b'w'
    [] c \in {88, 120} -> 33       \* b'X' | b'x'
    [] c \in {89, 121} -> 34       \* b'Y' | b'y'
    [] c \in {90, 122} -> 35       \* b'Z' | b'z'
    [] c = 32 -> 36                \* b' '
    [] c = 36 -> 37                \* b'$'
    [] c = 37 -> 38                \* b'%'
    [] c = 42 -> 39                \* b'*'
    [] c = 43 -> 40                \* b'+'
    [] c = 45 -> 41                \* b'-'
    [] c = 46 -> 42                \* b'.'
    [] c = 47 -> 43                \* b'/'
    [] c = 58 -> 44                \* b':'
    [] OTHER -> usize_MAX

\* is_qr_alphanumeric with b'!' among the accepted symbols.
is_qr_alphanumeric_bang(c) ==
  \/ c \in 65..90
  \/ c \in 97..122
  \/ c \in 48..57
  \/ c \in {32, 33, 36, 37, 42, 43, 45, 46, 47, 58}

is_qr_alphanumeric(c) ==
  \/ c \in 65..90                           \* b'A'..=b'Z'
  \/ c \in 97..122                          \* b'a'..=b'z'
  \/ c \in 48..57                           \* b'0'..=b'9'
  \/ c \in {32, 36, 37, 42, 43, 45, 46, 47, 58}

RECURSIVE try_encode_alphanumeric(_, _)
try_encode_alphanumeric(inp, k) ==
  IF k = Len(inp) THEN "Alphanumeric"
  ELSE IF ~is_qr_alphanumeric(inp[k + 1]) THEN "Byte"
  ELSE try_encode_alphanumeric(inp, k + 1)

\* try_encode_numeric with its loop ending one byte early.
RECURSIVE try_encode_numeric_early(_, _)
try_encode_numeric_early(inp, k) ==
  IF k + 1 >= Len(inp) THEN "Numeric"
  ELSE IF ~is_ascii_digit(inp[k + 1]) THEN try_encode_alphanumeric(inp, k)
  ELSE try_encode_numeric_early(inp, k + 1)

RECURSIVE try_encode_numeric(_, _)
try_encode_numeric(inp, k) ==
  IF k = Len(inp) THEN "Numeric"
  ELSE IF ~is_ascii_digit(inp[k + 1]) THEN try_encode_alphanumeric(inp, k)
  ELSE try_encode_numeric(inp, k + 1)

best_encoding(inp) ==
  try_encode_numeric(inp, 0)

-----------------------------------------------------------------------------
(* Mode encoders and finalizer, src/src/encode.rs.                         *)

\* The 4-bit mode indicator each encoder pushes first.
mode_indicator(m) ==
  CASE m = "Numeric"      -> <<FALSE, FALSE, FALSE, TRUE>>
    [] m = "Alphanumeric" -> <<FALSE, FALSE, TRUE, FALSE>>
    [] m = "Byte"         -> <<FALSE, TRUE, FALSE, FALSE>>

\* encode_numeric's inner fn
encode_number(b, number) ==
  CASE number \in 0..9   -> push_bits(b, number, 4)
    [] number \in 10..99 -> push_bits(b, number, 7)
    [] OTHER             -> push_bits(b, number, 10)

\* encode_numeric: the value of the full group starting at index k
numeric_group(inp, k) ==
  ascii_to_digit(inp[k + 1]) * 100
    + ascii_to_digit(inp[k + 2]) * 10
    + ascii_to_digit(inp[k + 3])

\* encode_numeric: the value the inner while leaves in `number`, started
\* at index k with number = acc
RECURSIVE numeric_rest(_, _, _)
numeric_rest(inp, k, acc) ==
  IF k < Len(inp)
  THEN numeric_rest(inp, k + 1, acc * 10 + ascii_to_digit(inp[k + 1]))
  ELSE acc

\* alphanumeric_pair with the wrong radix.
alphanumeric_pair_44(inp, k) ==
  ascii_to_alphanumeric(inp[k + 1]) * 44 + ascii_to_alphanumeric(inp[k + 2])

\* encode_alphanumeric: the value of the pair starting at index k
alphanumeric_pair(inp, k) ==
  ascii_to_alphanumeric(inp[k + 1]) * 45 + ascii_to_alphanumeric(inp[k + 2])

\* encode_alphanumeric: the bits the `while i < len` loop pushes from index
\* k to its end, 11 per pair, most significant bit of each pair first.
alphanumeric_pairs(inp, k) ==
  LET n == (Len(inp) - (Len(inp) % 2) - k) \div 2
  IN  [j \in 1..(11 * n) |->
        (alphanumeric_pair(inp, k + 2 * ((j - 1) \div 11))
           \div Pow2(10 - ((j - 1) % 11))) % 2 = 1]

\* pad_bytes with the two values in the other order.
pad_bytes_swapped(flag) ==
  IF flag THEN 236 ELSE 17

\* fill's pad_bytes[byte as usize]
pad_bytes(flag) ==
  IF flag THEN 17 ELSE 236

\* add_terminator's `bs.len() - data_bits` followed by `if i > 4 { i = 4 }`,
\* when the subtraction does not trap.  A usize difference that is negative
\* wraps to 2^64 - (data_bits - len), which exceeds 4 for every length and
\* budget a BitString can hold, so the clamp leaves 4.
terminator_count(len, budget) ==
  IF len >= budget THEN Min(len - budget, 4) ELSE 4

\* True when `bs.len() - data_bits` overflows usize: builds with overflow
\* checks panic there, builds without them wrap.
terminator_sub_overflows(len, budget) ==
  len < budget

\* pad_to_8's initial i
pad_count(len) ==
  (8 - (len % 8)) % 8

-----------------------------------------------------------------------------
(* Inputs explored.                                                        *)

\* Longest input explored exhaustively over Alphabet.
MaxShort == 3

\* Longest patterned input explored.
MaxLong == 27

\* Length of the one input that exceeds every version's capacity.
OverLen == 2954

\* Longest input that is classified by best_encoding and whose pair loop is
\* followed one iteration at a time; a longer input is encoded in the mode
\* the caller names and its pair loop is taken in one step.
MaxStepped == 64

\* An input length no version holds in any mode.
MaxChars == 7100

\* The number of characters whose Alphanumeric stream ends 3 bits short of
\* the budget of the largest version at level L.
NearCapacityLen ==
  CHOOSE n \in 0..CAPACITY :
    EncodedBits("Alphanumeric", n, NumVersions) + 3 = data_bits(NumVersions, "L")

\* b'0', b'7', b'A', b'a', b':', b'!'
Alphabet == {48, 55, 65, 97, 58, 33}

ShortInputs ==
  UNION {[1..n -> Alphabet] : n \in 0..MaxShort}

\* Digits "234567891234..." (every group of three starts with a non-zero
\* digit), the 45 table characters in rotation, and arbitrary bytes.
DigitPattern(n) ==
  [k \in 1..n |-> 49 + (k % 9)]

AlnumChars ==
  <<72, 69, 76, 76, 79, 32, 87, 79, 82, 76, 68, 36, 37, 42, 43, 45, 46, 47, 58,
    48, 57, 65, 90>>

AlnumPattern(n) ==
  [k \in 1..n |-> AlnumChars[((k - 1) % Len(AlnumChars)) + 1]]

BytePattern(n) ==
  [k \in 1..n |-> ((k * 37) + 200) % 256]

LongInputs ==
  UNION {{DigitPattern(n), AlnumPattern(n), BytePattern(n)} : n \in (MaxShort + 1)..MaxLong}

\* "HELLO WORLD"
HelloWorld ==
  <<72, 69, 76, 76, 79, 32, 87, 79, 82, 76, 68>>

Inputs ==
  ShortInputs \cup LongInputs
    \cup {HelloWorld, BytePattern(OverLen), AlnumPattern(NearCapacityLen)}

\* What a caller of encode must ensure about the forced mode: Numeric takes
\* digits only, Alphanumeric takes the characters of ascii_to_alphanumeric's
\* table only, Byte takes anything.
InModeDomain(m, inp) ==
  CASE m = "Numeric"      -> {k \in 1..Len(inp) : ~is_ascii_digit(inp[k])} = {}
    [] m = "Alphanumeric" -> {k \in 1..Len(inp) : ascii_to_alphanumeric(inp[k]) = usize_MAX} = {}
    [] m = "Byte"         -> TRUE

-----------------------------------------------------------------------------
(* best_encoding and encode as a state machine.                            *)

EncodeIdle ==
  /\ input = << >> /\ ecl = "L" /\ mode = "-" /\ best = "-" /\ version = 0
  /\ bs = << >> /\ i = 0 /\ byte = FALSE /\ encLen = 0 /\ fillLen = 0 /\ pc = "idle"

ModuleIdle ==
  /\ cell = 0 /\ ctor = "-" /\ mrole = "-" /\ mcolor = FALSE /\ mcalls = << >>

TableIdle ==
  /\ tpc = "idle" /\ tversion = 1 /\ tecl = "L"
  /\ tgroups = << >> /\ tcodewords = 0 /\ tpoly = << >>
  /\ tmode = "-" /\ tcci = 0 /\ tbits = 0

Init ==
  /\ input \in Inputs
  /\ ecl \in ECLs
  /\ mode = "-" /\ best = "-" /\ version = 0
  /\ bs = << >> /\ i = 0 /\ byte = FALSE /\ encLen = 0 /\ fillLen = 0
  /\ pc = "start"
  /\ ModuleIdle
  /\ TableIdle

\* best_encoding(input)
BestEncoding ==
  /\ pc = "start"
  /\ Len(input) <= MaxStepped
  /\ best' = best_encoding(input)
  /\ pc' = "classified"
  /\ UNCHANGED <<moduleVars, tableVars, fillLen, input, ecl, mode, version, bs, i, byte, encLen>>

\* encode(input, ecl, m), lines 14-31: version resolution, None when no
\* version fits.  The mode is the one best_encoding returned, or one the
\* caller forces, with or without a call of best_encoding before.
EncodeCall(m) ==
  /\ pc \in {"start", "classified"}
  /\ \/ pc = "classified" /\ m = best
     \/ InModeDomain(m, input)
  /\ mode' = m
  /\ version' = Version_get(m, ecl, Len(input))
  /\ pc' = IF version' = 0 THEN "none" ELSE "encoder"
  /\ UNCHANGED <<moduleVars, tableVars, fillLen, input, ecl, best, bs, i, byte, encLen>>

\* encode_numeric / encode_alphanumeric / encode_byte: mode indicator and
\* length field.
EncoderHeader ==
  /\ pc = "encoder"
  /\ bs' = push_bits(push_slice(BitString_new, mode_indicator(mode)),
                     Len(input), cci_bits(version, mode))
  /\ i' = 0
  /\ pc' = "payload"
  /\ UNCHANGED <<moduleVars, tableVars, fillLen, input, ecl, mode, best, version, byte, encLen>>

\* encode_numeric, one iteration of `while i < len`
NumericGroup ==
  /\ pc = "payload" /\ mode = "Numeric"
  /\ i < Len(input) - (Len(input) % 3)
  /\ bs' = encode_number(bs, numeric_group(input, i))
  /\ i' = i + 3
  /\ UNCHANGED <<moduleVars, tableVars, fillLen, input, ecl, mode, best, version, byte, encLen, pc>>

\* encode_numeric, `if len != input.len()` and the return
NumericTail ==
  /\ pc = "payload" /\ mode = "Numeric"
  /\ i >= Len(input) - (Len(input) % 3)
  /\ Len(input) - (Len(input) % 3) # Len(input)
  /\ bs' = encode_number(bs, numeric_rest(input, i, 0))
  /\ i' = Len(input)
  /\ encLen' = Len(bs')
  /\ pc' = "encoded"
  /\ UNCHANGED <<moduleVars, tableVars, fillLen, input, ecl, mode, best, version, byte>>

\* encode_alphanumeric, one iteration of `while i < len`
AlphanumericPair ==
  /\ pc = "payload" /\ mode = "Alphanumeric"
  /\ Len(input) <= MaxStepped
  /\ i < Len(input) - (Len(input) % 2)
  /\ bs' = push_bits(bs, alphanumeric_pair(input, i), 11)
  /\ i' = i + 2
  /\ UNCHANGED <<moduleVars, tableVars, fillLen, input, ecl, mode, best, version, byte, encLen, pc>>

\* encode_alphanumeric, the whole `while i < len` loop of a long input
AlphanumericLoop ==
  /\ pc = "payload" /\ mode = "Alphanumeric"
  /\ Len(input) > MaxStepped
  /\ i < Len(input) - (Len(input) % 2)
  /\ bs' = push_slice(bs, alphanumeric_pairs(input, i))
  /\ i' = Len(input) - (Len(input) % 2)
  /\ UNCHANGED <<moduleVars, tableVars, fillLen, input, ecl, mode, best, version, byte, encLen, pc>>

\* encode_alphanumeric, `if len != input.len()` and the return
AlphanumericTail ==
  /\ pc = "payload" /\ mode = "Alphanumeric"
  /\ i >= Len(input) - (Len(input) % 2)
  /\ Len(input) - (Len(input) % 2) # Len(input)
  /\ bs' = push_bits(bs, ascii_to_alphanumeric(input[i + 1]), 6)
  /\ encLen' = Len(bs')
  /\ pc' = "encoded"
  /\ UNCHANGED <<moduleVars, tableVars, fillLen, input, ecl, mode, best, version, i, byte>>

\* encode_byte, one iteration of `while i < input.len()`
ByteStep ==
  /\ pc = "payload" /\ mode = "Byte"
  /\ i < Len(input)
  /\ bs' = push_u8(bs, input[i + 1])
  /\ i' = i + 1
  /\ UNCHANGED <<moduleVars, tableVars, fillLen, input, ecl, mode, best, version, byte, encLen, pc>>

\* The encoder's return when its loop is over and no partial group is left.
EncoderReturn ==
  /\ pc = "payload"
  /\ CASE mode = "Numeric" ->
            i >= Len(input) - (Len(input) % 3) /\ Len(input) % 3 = 0
       [] mode = "Alphanumeric" ->
            i >= Len(input) - (Len(input) % 2) /\ Len(input) % 2 = 0
       [] mode = "Byte" ->
            i >= Len(input)
  /\ encLen' = Len(bs)
  /\ pc' = "encoded"
  /\ UNCHANGED <<moduleVars, tableVars, fillLen, input, ecl, mode, best, version, bs, i, byte>>

\* add_terminator, lines 167-171, in a build where the subtraction wraps
\* or does not overflow.
AddTerminatorEnter ==
  /\ pc = "encoded"
  /\ i' = terminator_count(Len(bs), data_bits(version, ecl))
  /\ pc' = "terminator"
  /\ UNCHANGED <<moduleVars, tableVars, fillLen, input, ecl, mode, best, version, bs, byte, encLen>>

\* add_terminator, line 167, in a build with overflow checks: the
\* subtraction panics.
AddTerminatorPanic ==
  /\ pc = "encoded"
  /\ terminator_sub_overflows(Len(bs), data_bits(version, ecl))
  /\ pc' = "panic"
  /\ UNCHANGED <<moduleVars, tableVars, fillLen, input, ecl, mode, best, version, bs, i, byte, encLen>>

\* add_terminator, one iteration of `while i > 0`
AddTerminatorPush ==
  /\ pc = "terminator"
  /\ i > 0
  /\ Len(bs) < CAPACITY
  /\ bs' = push(bs, FALSE)
  /\ i' = i - 1
  /\ UNCHANGED <<moduleVars, tableVars, fillLen, input, ecl, mode, best, version, byte, encLen, pc>>

\* add_terminator, an iteration of `while i > 0` on a full buffer: the
\* push goes past the capacity of BitString<23648>, which the buffer cannot
\* hold.
AddTerminatorPastCapacity ==
  /\ pc = "terminator"
  /\ i > 0
  /\ Len(bs) >= CAPACITY
  /\ pc' = "capacity_fault"
  /\ UNCHANGED <<moduleVars, tableVars, fillLen, input, ecl, mode, best, version, bs, i, byte, encLen>>

\* add_terminator returns; pad_to_8, line 183
PadEnter ==
  /\ pc = "terminator"
  /\ i = 0
  /\ i' = pad_count(Len(bs))
  /\ pc' = "pad"
  /\ UNCHANGED <<moduleVars, tableVars, fillLen, input, ecl, mode, best, version, bs, byte, encLen>>

\* pad_to_8, one iteration of `while i > 0`
PadPush ==
  /\ pc = "pad"
  /\ i > 0
  /\ bs' = push(bs, FALSE)
  /\ i' = i - 1
  /\ UNCHANGED <<moduleVars, tableVars, fillLen, input, ecl, mode, best, version, byte, encLen, pc>>

\* pad_to_8 returns; fill, line 198
FillEnter ==
  /\ pc = "pad"
  /\ i = 0
  /\ byte' = FALSE
  /\ fillLen' = Len(bs)
  /\ pc' = "fill"
  /\ UNCHANGED <<moduleVars, tableVars, input, ecl, mode, best, version, bs, i, encLen>>

\* fill, one iteration of `while bs.len() < data_bits`
FillPush ==
  /\ pc = "fill"
  /\ Len(bs) < data_bits(version, ecl)
  /\ bs' = push_u8(bs, pad_bytes(byte))
  /\ byte' = ~byte
  /\ UNCHANGED <<moduleVars, tableVars, fillLen, input, ecl, mode, best, version, i, encLen, pc>>

\* fill returns and encode returns Some(bs)
EncodeReturn ==
  /\ pc = "fill"
  /\ Len(bs) >= data_bits(version, ecl)
  /\ pc' = "done"
  /\ UNCHANGED <<moduleVars, tableVars, fillLen, input, ecl, mode, best, version, bs, i, byte, encLen>>

Next ==
  \/ BestEncoding
  \/ \E m \in Modes : EncodeCall(m)
  \/ EncoderHeader
  \/ NumericGroup
  \/ NumericTail
  \/ AlphanumericPair
  \/ AlphanumericLoop
  \/ AlphanumericTail
  \/ ByteStep
  \/ EncoderReturn
  \/ AddTerminatorEnter
  \/ AddTerminatorPanic
  \/ AddTerminatorPush
  \/ AddTerminatorPastCapacity
  \/ PadEnter
  \/ PadPush
  \/ FillEnter
  \/ FillPush
  \/ EncodeReturn

Spec ==
  Init /\ [][Next]_vars

-----------------------------------------------------------------------------
(* Module cells as a state machine.                                        *)

\* Most set / toggle calls made on one cell.
MaxCalls == 5

ModuleInit ==
  /\ EncodeIdle
  /\ TableIdle
  /\ \E value \in BOOLEAN, k \in 1..Len(ModuleTypes) :
       /\ mrole = ModuleTypes[k]
       /\ mcolor = value
       /\ \/ ctor = "new" /\ cell = Module_new(value, ModuleTypes[k])
          \/ ctor = "named" /\ cell = Module_named(value, ModuleTypes[k])
  /\ mcalls = << >>

\* module.set(value)
Set(value) ==
  /\ Len(mcalls) < MaxCalls
  /\ cell' = Module_set(cell, value)
  /\ mcolor' = value
  /\ mcalls' = Append(mcalls, IF value THEN "set(DARK)" ELSE "set(LIGHT)")
  /\ UNCHANGED <<encodeVars, tableVars, ctor, mrole>>

\* module.toggle()
Toggle ==
  /\ Len(mcalls) < MaxCalls
  /\ cell' = Module_toggle(cell)
  /\ mcolor' = ~mcolor
  /\ mcalls' = Append(mcalls, "toggle()")
  /\ UNCHANGED <<encodeVars, tableVars, ctor, mrole>>

ModuleNext ==
  \/ \E value \in BOOLEAN : Set(value)
  \/ Toggle

ModuleSpec ==
  ModuleInit /\ [][ModuleNext]_vars

-----------------------------------------------------------------------------
(* Table lookups as a state machine.                                       *)

TableInit ==
  /\ EncodeIdle
  /\ ModuleIdle
  /\ TableIdle

\* One caller looking up every table for a (version, level) pair.
Lookup(ver, lvl) ==
  /\ tpc' = "looked_up"
  /\ tversion' = ver
  /\ tecl' = lvl
  /\ tgroups' = ecc_to_groups(lvl, ver)
  /\ tcodewords' = data_codewords(ver, lvl)
  /\ tpoly' = get_polynomial(ver, lvl)
  /\ tmode' = "-" /\ tcci' = 0 /\ tbits' = 0
  /\ UNCHANGED <<encodeVars, moduleVars>>

\* What encode looks up for the version it was given (lines 20 and 33):
\* the width of the length field of the mode and the data-bit budget of
\* the level.
BudgetLookup(ver, lvl, m) ==
  /\ tpc' = "budget"
  /\ tversion' = ver
  /\ tecl' = lvl
  /\ tmode' = m
  /\ tcci' = cci_bits(ver, m)
  /\ tbits' = data_bits(ver, lvl)
  /\ tgroups' = << >> /\ tcodewords' = 0 /\ tpoly' = << >>
  /\ UNCHANGED <<encodeVars, moduleVars>>

TableNext ==
  \/ \E ver \in Versions, lvl \in ECLs : Lookup(ver, lvl)
  \/ \E ver \in Versions, lvl \in ECLs, m \in Modes : BudgetLookup(ver, lvl, m)

TableSpec ==
  TableInit /\ [][TableNext]_vars

-----------------------------------------------------------------------------
(* Vocabulary of the properties: what a reader of the bit stream sees.     *)

RECURSIVE Pow10(_)
Pow10(n) ==
  IF n <= 0 THEN 1 ELSE 10 * Pow10(n - 1)

\* The unsigned value of a sequence of bits, most significant bit first.
RECURSIVE BitsValue(_)
BitsValue(bits) ==
  IF bits = << >> THEN 0
  ELSE 2 * BitsValue(SubSeq(bits, 1, Len(bits) - 1))
         + (IF bits[Len(bits)] THEN 1 ELSE 0)

\* The value of the n bits of b that follow its first `before` bits.
Field(b, before, n) ==
  BitsValue(SubSeq(b, before + 1, before + n))

\* The QR alphanumeric character set in value order: 0-9, A-Z, space and
\* $ % * + - . / :
QRAlphanumeric ==
  <<48, 49, 50, 51, 52, 53, 54, 55, 56, 57,
    65, 66, 67, 68, 69, 70, 71, 72, 73, 74, 75, 76, 77,
    78, 79, 80, 81, 82, 83, 84, 85, 86, 87, 88, 89, 90,
    32, 36, 37, 42, 43, 45, 46, 47, 58>>

QRAlphanumericSet ==
  {QRAlphanumeric[k] : k \in 1..Len(QRAlphanumeric)}

\* The value of a character of the set.
QRValue(c) ==
  (CHOOSE k \in 1..Len(QRAlphanumeric) : QRAlphanumeric[k] = c) - 1

AllDigits(inp) ==
  \A k \in 1..Len(inp) : inp[k] \in 48..57

AllQRAlphanumeric(inp) ==
  \A k \in 1..Len(inp) : inp[k] \in QRAlphanumericSet

\* Bits before the packed payload: mode indicator and length field.
HeaderBits ==
  4 + cci_bits(version, mode)

\* The budget of the call in progress.
Budget ==
  data_bits(version, ecl)

-----------------------------------------------------------------------------
(* C1 .. C10                                                               *)

\* C1: whenever encode returns a stream, its length is exactly
\* data_bits(version, level) for the version the resolver selected.
C1_EncodeLengthIsBudget ==
  pc = "done" => Len(bs) = Budget

\* C2: add_terminator appends exactly min(4, budget - len) zero bits (none
\* when len >= budget), so a stream within the budget stays within it.
C2_TerminatorAppendsMin4Remaining ==
  (pc = "terminator" /\ i = 0) =>
    /\ Len(bs) = encLen + Min(4, IF Budget > encLen THEN Budget - encLen ELSE 0)
    /\ (encLen <= Budget => Len(bs) <= Budget)

\* C3: after mode indicator and length field, the Numeric encoder emits
\* floor(n/3) groups of 10 bits holding the value of three digits, then 7
\* bits for two remaining digits or 4 bits for one; the width follows the
\* number of digits of the group, never the magnitude of its value.
C3_NumericGroupWidths ==
  (pc = "encoded" /\ mode = "Numeric") =>
    LET n == Len(input)
        d(k) == input[k] - 48
    IN  /\ Len(bs) = HeaderBits + 10 * (n \div 3)
                       + (IF n % 3 = 2 THEN 7 ELSE IF n % 3 = 1 THEN 4 ELSE 0)
        /\ \A g \in 0..((n \div 3) - 1) :
             Field(bs, HeaderBits + 10 * g, 10)
               = 100 * d(3 * g + 1) + 10 * d(3 * g + 2) + d(3 * g + 3)
        /\ n % 3 = 2 =>
             Field(bs, HeaderBits + 10 * (n \div 3), 7) = 10 * d(n - 1) + d(n)
        /\ n % 3 = 1 =>
             Field(bs, HeaderBits + 10 * (n \div 3), 4) = d(n)

\* Decoding a mode-encoded stream: 4-bit mode indicator, length field of
\* cci bits, packed payload.  A stream that is not laid out as the length
\* field announces decodes to <<"malformed">>.
DecodeNumeric(b, cci) ==
  LET n == Field(b, 4, cci)
      full == n \div 3
      tailBits == IF n % 3 = 2 THEN 7 ELSE IF n % 3 = 1 THEN 4 ELSE 0
      digit(k) ==
        LET g == (k - 1) \div 3
            r == (k - 1) % 3
        IN  IF g < full
            THEN (Field(b, 4 + cci + 10 * g, 10) \div Pow10(2 - r)) % 10
            ELSE (Field(b, 4 + cci + 10 * full, tailBits)
                    \div Pow10((n % 3) - 1 - r)) % 10
  IN  IF Len(b) # 4 + cci + 10 * full + tailBits \/ SubSeq(b, 1, 4) # mode_indicator("Numeric")
      THEN <<"malformed">>
      ELSE [k \in 1..n |-> 48 + digit(k)]

DecodeAlphanumeric(b, cci) ==
  LET n == Field(b, 4, cci)
      full == n \div 2
      val(k) ==
        LET g == (k - 1) \div 2
        IN  IF g < full
            THEN IF (k - 1) % 2 = 0
                 THEN Field(b, 4 + cci + 11 * g, 11) \div 45
                 ELSE Field(b, 4 + cci + 11 * g, 11) % 45
            ELSE Field(b, 4 + cci + 11 * full, 6)
  IN  IF \/ Len(b) # 4 + cci + 11 * full + 6 * (n % 2)
         \/ SubSeq(b, 1, 4) # mode_indicator("Alphanumeric")
         \/ \E k \in 1..n : val(k) >= Len(QRAlphanumeric)
      THEN <<"malformed">>
      ELSE [k \in 1..n |-> QRAlphanumeric[val(k) + 1]]

DecodeByte(b, cci) ==
  LET n == Field(b, 4, cci)
  IN  IF Len(b) # 4 + cci + 8 * n \/ SubSeq(b, 1, 4) # mode_indicator("Byte")
      THEN <<"malformed">>
      ELSE [k \in 1..n |-> Field(b, 4 + cci + 8 * (k - 1), 8)]

Decode(m, b, cci) ==
  CASE m = "Numeric"      -> DecodeNumeric(b, cci)
    [] m = "Alphanumeric" -> DecodeAlphanumeric(b, cci)
    [] m = "Byte"         -> DecodeByte(b, cci)

\* C4: decoding the stream a mode encoder produced recovers the input
\* bytes exactly, for every input of the mode's domain.
C4_RoundTrip ==
  pc = "encoded" => Decode(mode, bs, cci_bits(version, mode)) = input

\* C5: an input with at least one byte outside the QR alphanumeric set
\* (0-9, A-Z, space, $ % * + - . / :) is classified Byte; a lowercase
\* letter is such a byte.
C5_OutsideSetIsByte ==
  (pc = "classified" /\ ~AllQRAlphanumeric(input)) => best = "Byte"

\* C6: an input whose bytes all belong to the QR alphanumeric set is
\* classified Numeric when every byte is a digit (the empty input too) and
\* Alphanumeric otherwise, wherever the first non-digit stands.
C6_CheapestModeInsideSet ==
  (pc = "classified" /\ AllQRAlphanumeric(input)) =>
    best = (IF AllDigits(input) THEN "Numeric" ELSE "Alphanumeric")

\* A digit first, a non-digit of the set later, classified Alphanumeric.
C6_Witness ==
  /\ pc = "classified"
  /\ AllQRAlphanumeric(input)
  /\ Len(input) >= 2
  /\ input[1] \in 48..57
  /\ ~AllDigits(input)
  /\ best = "Alphanumeric"

\* C7: for an input over the QR alphanumeric set, the Alphanumeric encoder
\* emits 0010, the length in cci_bits bits, floor(n/2) groups of 11 bits
\* holding value(first) * 45 + value(second), and 6 bits holding
\* value(last) when n is odd; "HELLO WORLD" gives length 11 and the groups
\* 779, 966, 1116, 1464, 1236 and 13.
C7_AlphanumericLayout ==
  (pc = "encoded" /\ mode = "Alphanumeric" /\ AllQRAlphanumeric(input)) =>
    LET n == Len(input)
    IN  /\ SubSeq(bs, 1, 4) = <<FALSE, FALSE, TRUE, FALSE>>
        /\ Field(bs, 4, cci_bits(version, mode)) = n
        /\ Len(bs) = HeaderBits + 11 * (n \div 2) + 6 * (n % 2)
        /\ \A g \in 0..((n \div 2) - 1) :
             Field(bs, HeaderBits + 11 * g, 11)
               = QRValue(input[2 * g + 1]) * 45 + QRValue(input[2 * g + 2])
        /\ n % 2 = 1 =>
             Field(bs, HeaderBits + 11 * (n \div 2), 6) = QRValue(input[n])
        /\ input = HelloWorld =>
             /\ n = 11
             /\ [g \in 1..5 |-> Field(bs, HeaderBits + 11 * (g - 1), 11)]
                  = <<779, 966, 1116, 1464, 1236>>
             /\ Field(bs, HeaderBits + 55, 6) = 13

C7_Witness ==
  /\ pc = "encoded" /\ mode = "Alphanumeric" /\ input = HelloWorld
  /\ Len(bs) = HeaderBits + 61

\* C8: after construction with color c and role r and any sequence of
\* set / toggle calls, module_type() is r (the unreachable arm is never
\* taken) and value() is the color the calls leave.
C8_ModuleIsColorAndRole ==
  ctor # "-" =>
    /\ Module_module_type(cell) = mrole
    /\ Module_value(cell) = mcolor

\* A named constructor, then both kinds of call, ending on a toggle.
C8_Witness ==
  /\ ctor = "named" /\ mrole = "Empty"
  /\ Len(mcalls) >= 3
  /\ \E k \in 1..Len(mcalls) : mcalls[k] = "set(LIGHT)"
  /\ \E k \in 1..Len(mcalls) : mcalls[k] = "set(DARK)"
  /\ mcalls[Len(mcalls)] = "toggle()"
  /\ Module_value(cell)

\* C9: g1_count * g1_size + g2_count * g2_size = data_codewords, for every
\* version and level.
C9_GroupsSumToDataCodewords ==
  tpc = "looked_up" =>
    tgroups[1][1] * tgroups[1][2] + tgroups[2][1] * tgroups[2][2] = tcodewords

\* A pair with two non-empty groups.
C9_Witness ==
  /\ tpc = "looked_up" /\ tversion = 40 /\ tecl = "H"
  /\ tgroups = << <<20, 15>>, <<61, 16>> >>
  /\ tcodewords = 1276

\* C10 as stated: the group sizes read as per-block codeword totals, and the
\* error-correction total as len(get_polynomial) * (g1_count + g2_count).
C10_AsStated ==
  tpc = "looked_up" =>
    tgroups[1][1] * tgroups[1][2] + tgroups[2][1] * tgroups[2][2]
      = tcodewords + Len(tpoly) * (tgroups[1][1] + tgroups[2][1])

\* C10, amended: the sizes of ecc_to_groups are per-block data-codeword
\* counts and a block has len(get_polynomial) - 1 error-correction
\* codewords (the polynomial has one coefficient more than that); with the
\* per-block total taken as size + len - 1, the sum over both groups of
\* count * total equals data_codewords + (len - 1) * (g1_count + g2_count).
C10_BlockTotals ==
  tpc = "looked_up" =>
    LET ec == Len(tpoly) - 1
    IN  /\ ec >= 1
        /\ tgroups[1][1] * (tgroups[1][2] + ec) + tgroups[2][1] * (tgroups[2][2] + ec)
             = tcodewords + ec * (tgroups[1][1] + tgroups[2][1])

\* Version 1 level L: one block of 19 + 7 codewords, polynomial of 8
\* coefficients.
C10_Witness ==
  /\ tpc = "looked_up" /\ tversion = 1 /\ tecl = "L"
  /\ tgroups[1] = <<1, 19>> /\ Len(tpoly) = 8 /\ tcodewords = 19

-----------------------------------------------------------------------------
(* C11 .. C16                                                              *)

\* C11: cci_bits(version, mode) is 16 / 8 for Byte at version >= 10 / below,
\* 14 / 12 / 10 for Numeric and 13 / 11 / 9 for Alphanumeric at version
\* >= 27 / 10..26 / below 10, whatever the error-correction level.
C11_CciBitsTable ==
  tpc = "budget" =>
    LET band == IF tversion \in 1..9 THEN 1 ELSE IF tversion \in 10..26 THEN 2 ELSE 3
    IN  tcci = CASE tmode = "Byte"         -> <<8, 16, 16>>[band]
                 [] tmode = "Numeric"      -> <<10, 12, 14>>[band]
                 [] tmode = "Alphanumeric" -> <<9, 11, 13>>[band]

\* A threshold version, at a level other than the first.
C11_Witness ==
  /\ tpc = "budget" /\ tversion = 27 /\ tecl = "H"
  /\ tmode = "Alphanumeric" /\ tcci = 13


\* C12: in every state reached while encode runs on an input for which a
\* version was resolved, the bit stream holds at most CAPACITY (23648) bits
\* and no append is attempted on a full buffer, including for inputs whose
\* encoded length leaves fewer than 4 bits before the budget of version 40
\* at level L.
C12_LengthWithinCapacity ==
  version # 0 => (Len(bs) <= CAPACITY /\ pc # "capacity_fault")

\* C13: when fill is entered with a stream whose length is a multiple of 8
\* and at most the budget, everything it appends is whole bytes, the k-th
\* appended byte (k = 0, 1, 2, ...) being 0xEC (236) for even k and 0x11 (17)
\* for odd k, the stream never passes the budget, and fill returns with the
\* length equal to the budget; entered at the budget it appends nothing.
C13_FillAlternatesToBudget ==
  (pc \in {"fill", "done"} /\ fillLen % 8 = 0 /\ fillLen <= Budget) =>
    LET added == Len(bs) - fillLen
    IN  /\ added >= 0 /\ added % 8 = 0
        /\ Len(bs) <= Budget
        /\ \A k \in 0..((added \div 8) - 1) :
             Field(bs, fillLen + 8 * k, 8) = IF k % 2 = 0 THEN 236 ELSE 17
        /\ pc = "done" => Len(bs) = Budget
        /\ fillLen = Budget => added = 0

C13_Witness ==
  /\ pc = "done" /\ fillLen % 8 = 0 /\ fillLen < Budget
  /\ Len(bs) = Budget /\ Len(bs) - fillLen >= 24
  /\ Field(bs, fillLen, 8) = 236
  /\ Field(bs, fillLen + 8, 8) = 17
  /\ Field(bs, fillLen + 16, 8) = 236

\* C14: the length field never truncates.  For every mode, version 1..40
\* and level, every input length n whose mode-encoded stream (4 bits of mode
\* indicator, cci_bits(version, mode) bits of length and the payload of n
\* characters) fits in data_bits(version, level) is below
\* 2^cci_bits(version, mode).  Lengths are enumerated up to MaxChars, which
\* itself does not fit, so no longer input fits either.
C14_LengthFieldHolds ==
  tpc = "budget" =>
    /\ \A n \in 0..MaxChars :
         4 + tcci + PayloadBits(tmode, n) <= tbits => n < Pow2(tcci)
    /\ 4 + tcci + PayloadBits(tmode, MaxChars) > tbits

\* Version 9 at level L in Byte mode: 230 bytes fit and the field is 8 bits.
C14_Witness ==
  /\ tpc = "budget" /\ tversion = 9 /\ tecl = "L" /\ tmode = "Byte"
  /\ tcci = 8
  /\ 4 + tcci + PayloadBits(tmode, 230) <= tbits
  /\ 4 + tcci + PayloadBits(tmode, 231) > tbits

\* C15: the classifier and the encoders agree on their input domains.  For
\* every byte b in 0..255, is_qr_alphanumeric(b) holds exactly when
\* ascii_to_alphanumeric(b) is a value in 0..44 and not the usize::MAX
\* sentinel; and whenever encode runs in the mode best_encoding returned for
\* the input, a Numeric run meets only digit bytes (b'0' is never subtracted
\* from a non-digit) and an Alphanumeric run meets only bytes the table maps
\* (the sentinel is never multiplied or pushed).
C15_ClassifierAgreesWithEncoders ==
  /\ pc = "classified" =>
       \A b \in 0..255 :
         is_qr_alphanumeric(b) <=> ascii_to_alphanumeric(b) \in 0..44
  /\ (mode # "-" /\ mode = best) =>
       \A k \in 1..Len(input) :
         /\ mode = "Numeric" =>
              is_ascii_digit(input[k]) /\ ascii_to_digit(input[k]) \in 0..9
         /\ mode = "Alphanumeric" =>
              ascii_to_alphanumeric(input[k]) # usize_MAX
                /\ ascii_to_alphanumeric(input[k]) \in 0..44

\* An input with a lowercase letter and a symbol, classified Alphanumeric
\* and encoded in that mode to the end of the encoder.
C15_Witness ==
  /\ pc = "encoded" /\ best = "Alphanumeric" /\ mode = best
  /\ \E k \in 1..Len(input) : input[k] = 97
  /\ \E k \in 1..Len(input) : input[k] = 58

\* The symbol's codeword count as the tables of one level give it: the data
\* codewords plus len(get_polynomial) - 1 error-correction codewords for
\* each block of either group.
TotalCodewords(ver, lvl) ==
  data_codewords(ver, lvl)
    + (Len(get_polynomial(ver, lvl)) - 1)
        * (ecc_to_groups(lvl, ver)[1][1] + ecc_to_groups(lvl, ver)[2][1])

\* C16: the tables agree on the symbol's total codeword count.  For every
\* version 1..40, data_codewords + (len(get_polynomial) - 1) * (g1_count +
\* g2_count) computed from what a lookup returned equals the same quantity
\* of each of the four levels L, M, Q and H, and the first coefficient of
\* the returned polynomial is 0.
C16_TotalCodewordsAgree ==
  tpc = "looked_up" =>
    /\ \A lvl \in ECLs :
         TotalCodewords(tversion, lvl)
           = tcodewords + (Len(tpoly) - 1) * (tgroups[1][1] + tgroups[2][1])
    /\ Len(tpoly) >= 1
    /\ tpoly[1] = 0

\* Version 40 at level Q: 1666 data codewords and 68 blocks of 30
\* error-correction codewords, 3706 in all.
C16_Witness ==
  /\ tpc = "looked_up" /\ tversion = 40 /\ tecl = "Q"
  /\ tcodewords = 1666 /\ Len(tpoly) = 31 /\ tpoly[1] = 0
  /\ tgroups[1][1] + tgroups[2][1] = 68
  /\ TotalCodewords(40, "L") = 3706
=============================================================================
